---- MODULE Spec2Model ----
(***************************************************************************)
(* State-machine model of the QQQ option feature pipeline:                 *)
(*   data_completeness.check_data_completeness   (row validator)           *)
(*   features.time_features                      (daily spot panel)        *)
(*   features.volume_OI_features                 (tenor/moneyness buckets) *)
(*   ic_analysis.calculate_ic_and_plot           (information coefficient) *)
(*                                                                         *)
(* A pandas cell is either a number <<x>> or the missing value NA = <<>>.  *)
(* Every comparison with a missing value is FALSE, as for NaN in numpy.    *)
(* Prices, volumes and dte are integers; deltas are in tenths (5 = 0.5).   *)
(***************************************************************************)
EXTENDS Integers, Sequences, FiniteSets, TLC

VARIABLES pc, pandas3, tenor, vol_windows, QQQ, QQQ0, valid, daily, voi, out, icIn, icDaily, icCols, icSummary

vars == <<pc, pandas3, tenor, vol_windows, QQQ, QQQ0, valid, daily, voi, out, icIn, icDaily, icCols, icSummary>>

\* ------------------------------------------------------------------ bounds
MaxRows == 2

MaxTimeRows == 3

MaxDate == 3

MaxBucketRows == 3

MaxPanel == 4

\* ------------------------------------------------------------ cell values
NA == <<>>

Num(x) == <<x>>

IsNA(a) == a = NA

\* a > b on two cells: False when either is missing
Gt(a, b) == (~IsNA(a)) /\ (~IsNA(b)) /\ a[1] > b[1]

\* a <= b on two cells: False when either is missing
Le(a, b) == (~IsNA(a)) /\ (~IsNA(b)) /\ a[1] <= b[1]

\* a < b on two cells: False when either is missing
Lt(a, b) == (~IsNA(a)) /\ (~IsNA(b)) /\ a[1] < b[1]

\* All sequences over S of length 1..n
SeqsUpTo(S, n) == UNION {[1..k -> S] : k \in 1..n}

\* ---------------------------------------------------------- option rows
BaseRow ==
    [tradeDate |-> 1, spotPrice |-> Num(100), dte |-> Num(10),
     callBidPrice |-> Num(3), callAskPrice |-> Num(5),
     putBidPrice |-> Num(3), putAskPrice |-> Num(5),
     callVolume |-> Num(1), putVolume |-> Num(2),
     callOpenInterest |-> Num(3), putOpenInterest |-> Num(4),
     callDelta |-> Num(5), putDelta |-> Num(-5)]

\* A row carrying every anomaly the validator only reports: missing
\* liquidity, missing greek, non-positive spot, out-of-bound delta,
\* negative dte.
AnomalousRow ==
    [BaseRow EXCEPT !.spotPrice = Num(0), !.dte = Num(-1),
                    !.callVolume = NA, !.putOpenInterest = NA,
                    !.callDelta = Num(12), !.putDelta = NA]

QuoteCells == {NA, Num(3), Num(5)}

PutQuotes == {<<Num(3), Num(5)>>, <<Num(5), Num(3)>>, <<NA, Num(5)>>, <<Num(-1), NA>>}

\* Rows offered to the validator: every bid/ask combination on the call
\* leg, crossed / uncrossed / missing / negative quotes on the put leg,
\* with and without the reported-only anomalies.
ValidatorRows ==
    {[b EXCEPT !.callBidPrice = cb, !.callAskPrice = ca,
               !.putBidPrice = pq[1], !.putAskPrice = pq[2]] :
        b \in {BaseRow, AnomalousRow}, cb \in QuoteCells, ca \in QuoteCells,
        pq \in PutQuotes}

\* ------------------------------------------------- check_data_completeness
\* bid > ask on either leg (the mask of lines 42-43, before negation)
BidAboveAsk(r) ==
    Gt(r.callBidPrice, r.callAskPrice) \/ Gt(r.putBidPrice, r.putAskPrice)

\* faulty variant: only the call leg is screened
KeepRow_CallLegOnly(r) == ~Gt(r.callBidPrice, r.callAskPrice)

\* faulty variant: a row with a missing quote is dropped as well
KeepRow_DropMissing(r) ==
    Le(r.callBidPrice, r.callAskPrice) /\ Le(r.putBidPrice, r.putAskPrice)

KeepRow(r) == ~BidAboveAsk(r)

\* Boolean-mask selection QQQ[mask]: the rows whose mask is True, in order
check_data_completeness(Q) == SelectSeq(Q, KeepRow)

CheckDataCompleteness ==
    /\ pc = "validate"
    /\ valid' = check_data_completeness(QQQ)
    /\ pc' = "daily"
    /\ UNCHANGED <<pandas3, tenor, vol_windows, QQQ, QQQ0, daily, voi, out, icIn, icDaily, icCols, icSummary>>

\* ---------------------------------------- time_features.prepare_daily_dataframe
Dates == 1..MaxDate

\* a missing spot, a zero spot (the validator only reports it) and two prices
SpotCells == {NA, Num(0), Num(100), Num(101)}

\* Rows offered to the daily builder: well-formed quotes, any date, any spot
TimeRows ==
    {[BaseRow EXCEPT !.tradeDate = d, !.spotPrice = sp] : d \in Dates, sp \in SpotCells}

\* df.sort_values("tradeDate"): the default kind is quicksort, which is not
\* stable, so rows of one date may come out in any relative order.
SortOrders(Q) ==
    {p \in Permutations(1..Len(Q)) :
        \A i, j \in 1..Len(Q) : i < j => Q[p[i]].tradeDate <= Q[p[j]].tradeDate}

SortValues(Q, p) == [i \in 1..Len(Q) |-> Q[p[i]]]

\* GroupBy "first": the first non-null entry of the group, NA if there is none
GroupFirst(S, d) ==
    LET idx == {i \in 1..Len(S) : S[i].tradeDate = d /\ ~IsNA(S[i].spotPrice)}
    IN  IF idx = {} THEN NA
        ELSE S[CHOOSE i \in idx : \A j \in idx : i <= j].spotPrice

\* the distinct group keys in ascending order (groupby sorts its keys)
RECURSIVE AscendingSeq(_)
AscendingSeq(D) ==
    IF D = {} THEN <<>>
    ELSE LET lo == CHOOSE d \in D : \A e \in D : d <= e
         IN  <<lo>> \o AscendingSeq(D \ {lo})

GroupKeys(S) == AscendingSeq({S[i].tradeDate : i \in 1..Len(S)})

prepare_daily_dataframe(Q, p) ==
    LET S == SortValues(Q, p)
        keys == GroupKeys(S)
    IN  [k \in 1..Len(keys) |-> [tradeDate |-> keys[k], spot |-> GroupFirst(S, keys[k])]]

PrepareDaily ==
    /\ pc = "daily"
    /\ \E p \in SortOrders(valid) : daily' = prepare_daily_dataframe(valid, p)
    /\ pc' = "returns"
    /\ UNCHANGED <<pandas3, tenor, vol_windows, QQQ, QQQ0, valid, voi, out, icIn, icDaily, icCols, icSummary>>

\* ------------------------------------------------ time_features.add_nextDayReturn
\* Series.ffill(): each missing cell takes the last present value before it
FFill(col) ==
    [i \in 1..Len(col) |->
        LET prev == {j \in 1..i : ~IsNA(col[j])}
        IN  IF prev = {} THEN NA ELSE col[CHOOSE j \in prev : \A k \in prev : k <= j]]

\* cur / prev - 1 as the exact fraction <<cur - prev, prev>>; a zero
\* denominator is the float infinity, 0/0 and missing operands give NA
PctCell(cur, prev) ==
    IF IsNA(cur) \/ IsNA(prev) THEN NA
    ELSE IF prev[1] = 0 /\ cur[1] = 0 THEN NA
    ELSE <<cur[1] - prev[1], prev[1]>>

\* Series.shift(k): row i takes the value of row i - k, NA outside the frame
Shift(col, k) ==
    [i \in 1..Len(col) |-> IF (i - k) \in 1..Len(col) THEN col[i - k] ELSE NA]

\* Series.pct_change() with its defaults: before pandas 3 the default
\* fill_method is "pad" (missing values are forward-filled first), from
\* pandas 3 on nothing is filled.
PctChange(col, pad) ==
    LET data == IF pad THEN FFill(col) ELSE col
        prev == Shift(data, 1)
    IN  [i \in 1..Len(col) |-> PctCell(data[i], prev[i])]

add_nextDayReturn(D, pad) ==
    LET ret == PctChange([i \in 1..Len(D) |-> D[i].spot], pad)
        nxt == Shift(ret, -1)
    IN  [i \in 1..Len(D) |->
            [tradeDate |-> D[i].tradeDate, spot |-> D[i].spot,
             ret_1d |-> ret[i], nextDayRet |-> nxt[i]]]

AddNextDayReturn ==
    /\ pc = "returns"
    /\ daily' = add_nextDayReturn(daily, ~pandas3)
    /\ pc' = "timeDone"
    /\ UNCHANGED <<pandas3, tenor, vol_windows, QQQ, QQQ0, valid, voi, out, icIn, icDaily, icCols, icSummary>>

\* ------------------------------------------ time_features.add_realisedVolFeatures
\* vol_windows and annualisation as time_features.__init__ sets them by default
DefaultVolWindows == <<5, 21, 63>>

Annualisation == 252

\* a return that counts as an observation of a rolling window: present and
\* finite (rolling turns an infinite value into a missing one)
IsObservation(r) == (~IsNA(r)) /\ r[2] # 0

\* (a - b)^2 for two returns kept as fractions, as the fraction
\* <<numerator, denominator>>
SqDiff(a, b) ==
    LET num == a[1] * b[2] - b[1] * a[2]
        den == a[2] * b[2]
    IN  <<num * num, den * den>>

\* faulty variant: one observation short of the window is enough
RollingStd_OneShort(col, w) ==
    [i \in 1..Len(col) |->
        LET obs == {j \in 1..i : j > i - w /\ IsObservation(col[j])}
            nobs == Cardinality(obs)
        IN  IF nobs < w - 1 \/ nobs <= 1 THEN NA
            ELSE [nobs |-> nobs,
                  sq |-> [q \in {x \in obs \X obs : x[1] < x[2]} |-> SqDiff(col[q[1]], col[q[2]])]]]

\* Series.rolling(w).std(): at row i the sample standard deviation
\* (ddof = 1) of the observations among rows i-w+1..i; min_periods defaults
\* to w, so it is missing unless all w rows are observations, and it is
\* missing when the observations do not outnumber ddof.  The variance of
\* nobs values is the sum of (x_j - x_k)^2 over the pairs j < k divided by
\* nobs * (nobs - 1); the cell keeps nobs and the squared differences.
RollingStd(col, w) ==
    [i \in 1..Len(col) |->
        LET obs == {j \in 1..i : j > i - w /\ IsObservation(col[j])}
            nobs == Cardinality(obs)
        IN  IF nobs < w \/ nobs <= 1 THEN NA
            ELSE [nobs |-> nobs,
                  sq |-> [q \in {x \in obs \X obs : x[1] < x[2]} |-> SqDiff(col[q[1]], col[q[2]])]]]

\* std * np.sqrt(annualisation)
Annualised(std, ann) == IF IsNA(std) THEN NA ELSE [std |-> std, ann |-> ann]

\* the loop over vol_windows: each pass reads ret_1d of the frame it has and
\* writes the column vol_{w}d (the field vol, keyed by w)
RECURSIVE VolLoop(_, _, _)
VolLoop(D, ws, ann) ==
    IF ws = <<>> THEN D
    ELSE LET w == Head(ws)
             col == RollingStd([i \in 1..Len(D) |-> D[i].ret_1d], w)
             D1 == [i \in 1..Len(D) |->
                      [D[i] EXCEPT !.vol =
                          [v \in (DOMAIN @) \cup {w} |->
                              IF v = w THEN Annualised(col[i], ann) ELSE @[v]]]]
         IN  VolLoop(D1, Tail(ws), ann)

add_realisedVolFeatures(D, ws, ann) ==
    VolLoop([i \in 1..Len(D) |->
                [tradeDate |-> D[i].tradeDate, spot |-> D[i].spot,
                 ret_1d |-> D[i].ret_1d, nextDayRet |-> D[i].nextDayRet,
                 vol |-> <<>>]], ws, ann)

AddRealisedVolFeatures ==
    /\ pc = "timeDone"
    /\ daily' = add_realisedVolFeatures(daily, vol_windows, Annualisation)
    /\ pc' = "volDone"
    /\ UNCHANGED <<pandas3, tenor, vol_windows, QQQ, QQQ0, valid, voi, out, icIn, icDaily, icCols, icSummary>>

\* ------------------------------------------------ volume_OI_features.__init__
\* dte_buckets without its two infinite ends, and dte_buckets_labels
DefaultTenor ==
    [bins |-> <<7, 30, 90, 365>>, labels |-> <<"7d", "1mo", "3mo", "12mo", "far">>]

\* a caller-supplied configuration: dte_buckets = [-inf, inf], one label
SingleTenor == [bins |-> <<>>, labels |-> <<"all">>]

\* 1 / machine_error
EpsInv == 100000000

MoneynessLabels == <<"itm", "atm", "otm">>

\* ---------------------------------------------- volume_OI_features.calc_volume_oi
Add(a, b) == IF IsNA(a) \/ IsNA(b) THEN NA ELSE Num(a[1] + b[1])

Mul(a, b) == IF IsNA(a) \/ IsNA(b) THEN NA ELSE Num(a[1] * b[1])

\* Money columns are kept in half units, so that (bid + ask) / 2 is exact:
\* mid_call below is twice the mid price, call_notvol twice the notional.
calc_volume_oi(Q) ==
    [i \in 1..Len(Q) |->
        LET r == Q[i]
            mid_call == Add(r.callBidPrice, r.callAskPrice)
            mid_put == Add(r.putBidPrice, r.putAskPrice)
        IN  [tradeDate |-> r.tradeDate, dte |-> r.dte,
             callDelta |-> r.callDelta, putDelta |-> r.putDelta,
             mid_call |-> mid_call, mid_put |-> mid_put,
             call_notvol |-> Mul(r.callVolume, mid_call),
             put_notvol |-> Mul(r.putVolume, mid_put),
             call_notoi |-> Mul(r.callOpenInterest, mid_call),
             put_notoi |-> Mul(r.putOpenInterest, mid_put)]]

CalcVolumeOi ==
    /\ pc = "voi"
    /\ voi' = calc_volume_oi(valid)
    /\ pc' = "buckets"
    /\ UNCHANGED <<pandas3, tenor, vol_windows, QQQ, QQQ0, valid, daily, out, icIn, icDaily, icCols, icSummary>>

\* ------------------------------------ volume_OI_features.create_delta_dte_buckets
NoBucket == "NaN"

\* faulty variant: pd.cut with right=False, intervals [b[k-1], b[k])
Cut_LeftClosed(dte, cfg) ==
    IF IsNA(dte) THEN NoBucket
    ELSE LET below == {k \in 1..Len(cfg.bins) : dte[1] < cfg.bins[k]}
         IN  IF below = {} THEN cfg.labels[Len(cfg.labels)]
             ELSE cfg.labels[CHOOSE k \in below : \A j \in below : k <= j]

\* pd.cut(dte, bins, labels): right-closed intervals (b[k-1], b[k]], the
\* first one open to -inf and the last to +inf; a missing dte has no bucket
Cut(dte, cfg) ==
    IF IsNA(dte) THEN NoBucket
    ELSE LET below == {k \in 1..Len(cfg.bins) : dte[1] <= cfg.bins[k]}
         IN  IF below = {} THEN cfg.labels[Len(cfg.labels)]
             ELSE cfg.labels[CHOOSE k \in below : \A j \in below : k <= j]

Abs(a) == IF IsNA(a) THEN NA ELSE IF a[1] < 0 THEN Num(-a[1]) ELSE a

\* Series.between(lo, hi, inclusive="both")
Between(a, lo, hi) == Le(Num(lo), a) /\ Le(a, Num(hi))

\* "itm" by default, "atm" where delta is in [0.4, 0.6], then "otm" where
\* delta < 0.4 (deltas are in tenths)
DeltaBucket(delta) ==
    IF Lt(delta, Num(4)) THEN "otm"
    ELSE IF Between(delta, 4, 6) THEN "atm"
    ELSE "itm"

\* faulty variant: the put leg is bucketed by the call delta of its row
PutDeltaBucket_ByCallDelta(r) == DeltaBucket(r.callDelta)

PutDeltaBucket(r) == DeltaBucket(Abs(r.putDelta))

CallDeltaBucket(r) == DeltaBucket(r.callDelta)

LegBucket(r, leg) == IF leg = "call" THEN CallDeltaBucket(r) ELSE PutDeltaBucket(r)

\* the three bucket columns create_delta_dte_buckets adds to its copy of the
\* rows before it aggregates them
assign_buckets(Q, cfg) ==
    [i \in 1..Len(Q) |->
        [dte |-> Q[i].dte, callDelta |-> Q[i].callDelta, putDelta |-> Q[i].putDelta,
         dte_bucket |-> Cut(Q[i].dte, cfg),
         call_delta_bucket |-> CallDeltaBucket(Q[i]),
         put_delta_bucket |-> PutDeltaBucket(Q[i])]]

AssignBuckets ==
    /\ pc = "classify"
    /\ voi' = assign_buckets(valid, tenor)
    /\ pc' = "classified"
    /\ UNCHANGED <<pandas3, tenor, vol_windows, QQQ, QQQ0, valid, daily, out, icIn, icDaily, icCols, icSummary>>

\* the rows of Q a groupby on (tradeDate, dte_bucket, <leg>_delta_bucket)
\* keeps: a missing dte_bucket drops the row
Grouped(Q, cfg) == {i \in 1..Len(Q) : Cut(Q[i].dte, cfg) # NoBucket}

RECURSIVE SumOver(_, _, _)
\* sum of column col over the rows I of Q, missing values skipped
SumOver(Q, I, col) ==
    IF I = {} THEN 0
    ELSE LET i == CHOOSE j \in I : TRUE
             v == Q[i][col]
         IN  (IF IsNA(v) THEN 0 ELSE v[1]) + SumOver(Q, I \ {i}, col)

\* groupby(...).agg(sum) followed by pivot_table(aggfunc="sum",
\* fill_value=0): the value of one (date, tenor, moneyness) cell
CellSum(Q, cfg, leg, col, d, t, m) ==
    SumOver(Q, {i \in Grouped(Q, cfg) :
                  /\ Q[i].tradeDate = d
                  /\ Cut(Q[i].dte, cfg) = t
                  /\ LegBucket(Q[i], leg) = m}, col)

\* index of the pivot: the trade dates of the aggregated rows, ascending
PivotDates(Q, cfg) == AscendingSeq({Q[i].tradeDate : i \in Grouped(Q, cfg)})

SeqToSet(sq) == {sq[i] : i \in 1..Len(sq)}

\* (tenor, moneyness) column keys of one leg's pivot.  The aggregate holds
\* the observed combinations only (observed=True).  pivot_table groups
\* again with its own default: before pandas 3 observed=False, which expands
\* the categorical dte_bucket to all its categories (filled with 0) while
\* the string moneyness level keeps its observed values; from pandas 3 on
\* observed=True, which keeps the observed combinations only.
PivotCells(Q, cfg, leg, p3) ==
    LET seen == {<<Cut(Q[i].dte, cfg), LegBucket(Q[i], leg)>> : i \in Grouped(Q, cfg)}
    IN  IF p3 THEN seen
        ELSE {<<t, c[2]>> : t \in SeqToSet(cfg.labels), c \in seen}

\* column order of a pivot (sort_index on the columns): metric by name,
\* tenor in category order, moneyness by name
MoneynessSorted == <<"atm", "itm", "otm">>

RECURSIVE Flatten(_)
Flatten(ss) == IF ss = <<>> THEN <<>> ELSE Head(ss) \o Flatten(Tail(ss))

PivotColumns(cells, metrics, cfg) ==
    LET all == Flatten([a \in 1..Len(metrics) |->
                 Flatten([b \in 1..Len(cfg.labels) |->
                   [c \in 1..3 |-> <<metrics[a], cfg.labels[b], MoneynessSorted[c]>>]])])
    IN  SelectSeq(all, LAMBDA n : <<n[2], n[3]>> \in cells)

CallMetrics == <<"call_notoi", "call_notvol">>

PutMetrics == <<"put_notoi", "put_notvol">>

\* the ratio columns in the order the double loop creates them
RatioColumns(cfg) ==
    Flatten([b \in 1..Len(cfg.labels) |->
      Flatten([c \in 1..3 |->
        << <<"pc_ratio_notional_vol", cfg.labels[b], MoneynessLabels[c]>>,
           <<"pc_ratio_notional_oi", cfg.labels[b], MoneynessLabels[c]>> >>])])

Metric(leg, ratio) ==
    IF ratio = "pc_ratio_notional_vol" THEN (IF leg = "call" THEN "call_notvol" ELSE "put_notvol")
    ELSE (IF leg = "call" THEN "call_notoi" ELSE "put_notoi")

\* faulty variant: the guard term is left out of the denominator
Denominator_NoEpsilon(call) == call * EpsInv

\* call + machine_error, as the integer call * EpsInv + 2 in units of
\* 1 / (2 * EpsInv) (call is in half units)
Denominator(call) == call * EpsInv + 2

\* put / (call + machine_error): the cell [n, d] stands for n * EpsInv / d;
\* d = 0 is a division by zero (an infinite or NaN float)
Ratio(put, call) == [n |-> put, d |-> Denominator(call)]

\* the lookups of the double loop that raise KeyError:
\* daily_put_agg[put_col] and daily_call_agg[call_col] are read for every
\* tenor label and every moneyness label
MissingColumns(putCells, callCells, cfg) ==
    {n \in SeqToSet(RatioColumns(cfg)) :
        <<n[2], n[3]>> \notin putCells \/ <<n[2], n[3]>> \notin callCells}

\* faulty variant: the bucket table is joined onto the panel with a left join
JoinDates_Left(D, dates) == [i \in 1..Len(D) |-> i]

\* pd.merge(daily, intermediate, on="tradeDate", how="inner"): the rows of
\* the panel, in panel order, whose date is in the bucket table
JoinDates(D, dates) ==
    SelectSeq([i \in 1..Len(D) |-> i], LAMBDA i : D[i].tradeDate \in SeqToSet(dates))

create_delta_dte_buckets(Q, D, cfg, p3) ==
    LET putCells == PivotCells(Q, cfg, "put", p3)
        callCells == PivotCells(Q, cfg, "call", p3)
    IN
    IF MissingColumns(putCells, callCells, cfg) # {} THEN [status |-> "KeyError"]
    ELSE
    LET dates == PivotDates(Q, cfg)
        putCols == PivotColumns(putCells, PutMetrics, cfg)
        callCols == PivotColumns(callCells, CallMetrics, cfg)
        ratioCols == RatioColumns(cfg)
        cols == putCols \o callCols \o ratioCols
        \* row k of both pivots after reset_index (the ratios are computed
        \* on the two frames aligned by this row number)
        putRow(k) == [n \in SeqToSet(putCols) |->
                        CellSum(Q, cfg, "put", n[1], dates[k], n[2], n[3])]
        callRow(k) == [n \in SeqToSet(callCols) |->
                        CellSum(Q, cfg, "call", n[1], dates[k], n[2], n[3])]
        wide(k) == [n \in SeqToSet(cols) |->
                      IF n \in SeqToSet(putCols) THEN putRow(k)[n]
                      ELSE IF n \in SeqToSet(callCols) THEN callRow(k)[n]
                      ELSE Ratio(putRow(k)[<<Metric("put", n[1]), n[2], n[3]>>],
                                 callRow(k)[<<Metric("call", n[1]), n[2], n[3]>>])]
        pos(d) == CHOOSE k \in 1..Len(dates) : dates[k] = d
        kept == JoinDates(D, dates)
    IN  [status |-> "ok",
         cols |-> cols,
         rows |-> [j \in 1..Len(kept) |->
                     [tradeDate |-> D[kept[j]].tradeDate,
                      daily |-> D[kept[j]],
                      val |-> IF D[kept[j]].tradeDate \in SeqToSet(dates)
                              THEN wide(pos(D[kept[j]].tradeDate))
                              ELSE [n \in SeqToSet(cols) |-> NA]]]]

CreateDeltaDteBuckets ==
    /\ pc = "buckets"
    /\ out' = create_delta_dte_buckets(voi, daily, tenor, pandas3)
    /\ pc' = "bucketsDone"
    /\ UNCHANGED <<pandas3, tenor, vol_windows, QQQ, QQQ0, valid, daily, voi, icIn, icDaily, icCols, icSummary>>

\* -------------------------------------------- ic_analysis.calculate_ic_and_plot
\* A panel row is a function from column name to cell.
FeatureColumns == <<"f">>

ZName(c) == IF c = "f" THEN "f_z" ELSE "z"

ChgName(c) == IF c = "f" THEN "f_z_chg1" ELSE "z_chg1"

Column(D, c) == [i \in 1..Len(D) |-> D[i][c]]

\* DataFrame.dropna() on the columns cols: a row with any missing cell goes
DropNA(D, cols) == SelectSeq(D, LAMBDA r : \A c \in cols : ~IsNA(r[c]))

\* daily = daily.copy(); daily = daily[['tradeDate','nextDayRet'] + features];
\* daily.dropna(inplace=True)
PreTrimmed(D, features) ==
    LET keep == {"tradeDate", "nextDayRet"} \cup SeqToSet(features)
        sel == [i \in 1..Len(D) |-> [c \in keep |-> D[i][c]]]
    IN  DropNA(sel, keep)

PreTrim ==
    /\ pc = "trim"
    /\ icDaily' = PreTrimmed(icIn, FeatureColumns)
    /\ pc' = "zscore"
    /\ UNCHANGED <<pandas3, tenor, vol_windows, QQQ, QQQ0, valid, daily, voi, out, icIn, icCols, icSummary>>

\* ----------------------------------------------- ic_analysis.calculate_z_scores
Present(col) == {i \in 1..Len(col) : ~IsNA(col[i])}

RECURSIVE SumIdx(_, _)
SumIdx(f, I) == IF I = {} THEN 0 ELSE LET i == CHOOSE j \in I : TRUE IN f[i] + SumIdx(f, I \ {i})

\* (col - col.mean()) / col.std(): mean and std skip missing values and std
\* has ddof = 1.  With cnt present values of sum sm, a cell x becomes
\* (cnt * x - sm) / (cnt * std); the positive factor 1 / (cnt * std) is
\* common to the column and the cell is kept as the integer cnt * x - sm.
\* std is undefined for cnt < 2 and 0 / 0 for a constant column: NA.
ZScore(col) ==
    LET P == Present(col)
        cnt == Cardinality(P)
        sm == SumIdx([i \in 1..Len(col) |-> IF i \in P THEN col[i][1] ELSE 0], P)
        constant == \A i, j \in P : col[i] = col[j]
    IN  [i \in 1..Len(col) |->
            IF IsNA(col[i]) \/ cnt < 2 \/ constant THEN NA
            ELSE Num(cnt * col[i][1] - sm)]

\* Series.diff(): col - col.shift(1)
Diff(col) ==
    LET prev == Shift(col, 1)
    IN  [i \in 1..Len(col) |->
            IF IsNA(col[i]) \/ IsNA(prev[i]) THEN NA ELSE Num(col[i][1] - prev[i][1])]

RECURSIVE calculate_z_scores(_, _)
calculate_z_scores(D, features) ==
    IF features = <<>> THEN [daily |-> D, cols |-> <<>>]
    ELSE LET c == Head(features)
             z == ZScore(Column(D, c))
             chg == Diff(z)
             D1 == [i \in 1..Len(D) |-> D[i] @@ (ZName(c) :> z[i]) @@ (ChgName(c) :> chg[i])]
             rest == calculate_z_scores(D1, Tail(features))
         IN  [daily |-> rest.daily, cols |-> <<ZName(c), ChgName(c)>> \o rest.cols]

CalculateZScores ==
    /\ pc = "zscore"
    /\ LET r == calculate_z_scores(icDaily, FeatureColumns)
       IN  icDaily' = r.daily /\ icCols' = r.cols
    /\ pc' = "ics"
    /\ UNCHANGED <<pandas3, tenor, vol_windows, QQQ, QQQ0, valid, daily, voi, out, icIn, icSummary>>

\* --------------------------------------------------- ic_analysis.calculate_ics
\* twice the average rank of x[i] among x (ties share the mean rank)
Rank2(x, i) ==
    2 * Cardinality({j \in 1..Len(x) : x[j][1] < x[i][1]})
      + Cardinality({j \in 1..Len(x) : x[j][1] = x[i][1]}) + 1

\* scipy.stats.spearmanr(x, y): the Pearson correlation of the ranks,
\* cov / sqrt(vx * vy), kept as the exact pair <<cov, vx * vy>>; NA (nan) for
\* fewer than two observations and for a constant input
Spearman(x, y) ==
    LET m == Len(x)
        I == 1..m
        rx == [i \in I |-> Rank2(x, i)]
        ry == [i \in I |-> Rank2(y, i)]
        sx == SumIdx(rx, I)
        sy == SumIdx(ry, I)
        cov == m * SumIdx([i \in I |-> rx[i] * ry[i]], I) - sx * sy
        vx == m * SumIdx([i \in I |-> rx[i] * rx[i]], I) - sx * sx
        vy == m * SumIdx([i \in I |-> ry[i] * ry[i]], I) - sy * sy
    IN  IF m < 2 \/ vx = 0 \/ vy = 0 THEN NA ELSE <<cov, vx * vy>>

\* np.isfinite(ic) and abs(ic) < 1, for ic = <<c, D>> = c / sqrt(D)
FiniteBelowOne(ic) == (~IsNA(ic)) /\ ic[1] * ic[1] < ic[2]

Sign(x) == IF x > 0 THEN 1 ELSE IF x < 0 THEN -1 ELSE 0

\* faulty variant: the t-statistic is computed without the guard on ic
TStat_Unguarded(ic, n) ==
    IF IsNA(ic) \/ n < 2 THEN NA
    ELSE [s |-> Sign(ic[1]), p |-> ic[1] * ic[1] * (n - 2), q |-> ic[2] - ic[1] * ic[1]]

\* ic * sqrt((n - 2) / (1 - ic**2)) under the guard, else nan.  The value
\* s * sqrt(p / q) is kept as [s, p, q]; a negative radicand is nan.
TStat(ic, n) ==
    IF FiniteBelowOne(ic)
    THEN IF n < 2 THEN NA
         ELSE [s |-> Sign(ic[1]), p |-> ic[1] * ic[1] * (n - 2), q |-> ic[2] - ic[1] * ic[1]]
    ELSE NA

\* ic1 > ic2 for two defined correlations c / sqrt(D)
IcGreater(a, b) == Sign(a[1]) * a[1] * a[1] * b[2] > Sign(b[1]) * b[1] * b[1] * a[2]

\* faulty variant: the summary is returned in the order the loop appended it
SortedOrders_Unsorted(rows) == {[k \in 1..Len(rows) |-> k]}

\* sort_values("IC_spearman", ascending=False): rows with a defined IC in
\* non-increasing order (quicksort: equal keys in any order), then the rows
\* with nan IC in their original order
SortedOrders(rows) ==
    {p \in Permutations(1..Len(rows)) :
        \A i, j \in 1..Len(rows) : i < j =>
            LET a == rows[p[i]].IC_spearman
                b == rows[p[j]].IC_spearman
            IN  /\ IsNA(a) => (IsNA(b) /\ p[i] < p[j])
                /\ (~IsNA(a) /\ ~IsNA(b)) => ~IcGreater(b, a)}

\* one iteration of the loop: n = len(daily) is taken once, before it
IcRow(D, col) ==
    LET n == Len(D)
        df == DropNA(D, {col, "nextDayRet"})
        ic == Spearman(Column(df, col), Column(df, "nextDayRet"))
    IN  [feature |-> col, IC_spearman |-> ic, IC_tstat |-> TStat(ic, n)]

ic_rows(D, cols) == [k \in 1..Len(cols) |-> IcRow(D, cols[k])]

CalculateIcs ==
    /\ pc = "ics"
    /\ LET rows == ic_rows(icDaily, icCols)
       IN  \E p \in SortedOrders(rows) : icSummary' = [k \in 1..Len(rows) |-> rows[p[k]]]
    /\ pc' = "icDone"
    /\ UNCHANGED <<pandas3, tenor, vol_windows, QQQ, QQQ0, valid, daily, voi, out, icIn, icDaily, icCols>>

\* ------------------------------------------------------------ specification
Idle ==
    /\ daily = <<>> /\ voi = <<>> /\ out = [status |-> "none"]
    /\ icIn = <<>> /\ icDaily = <<>> /\ icCols = <<>> /\ icSummary = <<>>

InitValidate ==
    /\ pc = "validate"
    /\ pandas3 = FALSE
    /\ tenor = DefaultTenor
    /\ vol_windows = DefaultVolWindows
    /\ QQQ \in SeqsUpTo(ValidatorRows, MaxRows)
    /\ QQQ0 = QQQ
    /\ valid = <<>>
    /\ Idle

NextValidate == CheckDataCompleteness

SpecValidate == InitValidate /\ [][NextValidate]_vars

\* the vol_windows argument of build_time_features: three windows, not in
\* ascending order, the shortest possible one among them
VolWindowConfigs == {<<3, 1, 2>>}

\* build_time_features on validated rows
InitTime ==
    /\ pc = "validate"
    /\ pandas3 \in BOOLEAN
    /\ tenor = DefaultTenor
    /\ vol_windows \in VolWindowConfigs
    /\ QQQ \in SeqsUpTo(TimeRows, MaxTimeRows)
    /\ QQQ0 = QQQ
    /\ valid = <<>>
    /\ Idle

NextTime == CheckDataCompleteness \/ PrepareDaily \/ AddNextDayReturn \/ AddRealisedVolFeatures

SpecTime == InitTime /\ [][NextTime]_vars

\* build_volume_oi_features on validated rows and a daily panel
BucketDates == {1, 2}

DeltaPairs == {<<Num(5), Num(-5)>>, <<Num(5), Num(-3)>>, <<Num(3), Num(-7)>>, <<Num(7), Num(-5)>>}

PanelDateSets == {D \in SUBSET (1..3) : 1 \in D}

BucketRow(d, dte, dp) ==
    [BaseRow EXCEPT !.tradeDate = d, !.dte = dte, !.callDelta = dp[1], !.putDelta = dp[2],
                    !.callBidPrice = Num(1), !.callAskPrice = Num(2),
                    !.putBidPrice = Num(1), !.putAskPrice = Num(2)]

\* rows in the 1mo and far tenors with every delta pair, and one row per
\* date without dte (it falls in no tenor bucket whatever its deltas are)
BucketRows ==
    {BucketRow(d, dte, dp) : d \in BucketDates, dte \in {Num(10), Num(400)}, dp \in DeltaPairs}
    \cup {BucketRow(d, NA, <<Num(5), Num(-5)>>) : d \in BucketDates}

\* the pool in a fixed order, to enumerate inputs up to row order (the
\* aggregation is a sum per cell, so a permutation of the rows changes
\* nothing it computes)
BucketRowIndex(r) ==
    LET dteIx == IF IsNA(r.dte) THEN 0 ELSE IF r.dte[1] = 10 THEN 1 ELSE 2
    IN  ((r.tradeDate * 3 + dteIx) * 10 + r.callDelta[1]) * 10 - r.putDelta[1]

BucketInputs ==
    {q \in SeqsUpTo(BucketRows, MaxBucketRows) :
        \A i \in 1..(Len(q) - 1) : BucketRowIndex(q[i]) <= BucketRowIndex(q[i+1])}

\* a daily panel over the dates D, as build_time_features returns it
PanelOver(D, pad) ==
    LET ds == AscendingSeq(D)
    IN  add_nextDayReturn([k \in 1..Len(ds) |-> [tradeDate |-> ds[k], spot |-> Num(100 + ds[k])]], pad)

InitBucket ==
    /\ pc = "voi"
    /\ pandas3 \in BOOLEAN
    /\ tenor \in {DefaultTenor, SingleTenor}
    /\ vol_windows = DefaultVolWindows
    /\ QQQ \in BucketInputs
    /\ QQQ0 = QQQ
    /\ valid = check_data_completeness(QQQ)
    /\ \E D \in PanelDateSets : daily = PanelOver(D, ~pandas3)
    /\ voi = <<>> /\ out = [status |-> "none"]
    /\ icIn = <<>> /\ icDaily = <<>> /\ icCols = <<>> /\ icSummary = <<>>

NextBucket == CalcVolumeOi \/ CreateDeltaDteBuckets

SpecBucket == InitBucket /\ [][NextBucket]_vars

\* the bucket columns of one row, at and around every bin edge and delta
\* threshold (dte in days, deltas in tenths), missing values included
EdgeDtes == {NA} \cup {Num(x) : x \in {-1, 0, 7, 8, 30, 31, 90, 91, 365, 366}}

EdgeCallDeltas == {NA} \cup {Num(x) : x \in {-5, 3, 4, 5, 6, 7}}

EdgePutDeltas == {NA} \cup {Num(x) : x \in {-7, -6, -4, -3, 5}}

EdgeRows ==
    {[BaseRow EXCEPT !.dte = t, !.callDelta = c, !.putDelta = q] :
        t \in EdgeDtes, c \in EdgeCallDeltas, q \in EdgePutDeltas}

InitClassify ==
    /\ pc = "classify"
    /\ pandas3 = FALSE
    /\ tenor = DefaultTenor
    /\ vol_windows = DefaultVolWindows
    /\ \E r \in EdgeRows : QQQ = <<r>>
    /\ QQQ0 = QQQ
    /\ valid = check_data_completeness(QQQ)
    /\ Idle

NextClassify == AssignBuckets

SpecClassify == InitClassify /\ [][NextClassify]_vars

\* calculate_ic_and_plot on a daily panel with one candidate feature
PanelCells == {NA, Num(1), Num(2)}

Panels ==
    UNION {[1..k -> [nextDayRet : PanelCells, f : PanelCells]] : k \in 1..MaxPanel}

PanelRow(i, r) ==
    [c \in {"tradeDate", "spot", "nextDayRet", "f"} |->
        IF c = "tradeDate" THEN Num(i)
        ELSE IF c = "spot" THEN Num(100)
        ELSE IF c = "nextDayRet" THEN r.nextDayRet
        ELSE r.f]

InitIC ==
    /\ pc = "trim"
    /\ pandas3 = FALSE
    /\ tenor = DefaultTenor
    /\ vol_windows = DefaultVolWindows
    /\ QQQ = <<>> /\ QQQ0 = <<>> /\ valid = <<>>
    /\ daily = <<>> /\ voi = <<>> /\ out = [status |-> "none"]
    /\ \E P \in Panels : icIn = [i \in 1..Len(P) |-> PanelRow(i, P[i])]
    /\ icDaily = <<>> /\ icCols = <<>> /\ icSummary = <<>>

NextIC == PreTrim \/ CalculateZScores \/ CalculateIcs

SpecIC == InitIC /\ [][NextIC]_vars

\* ------------------------------------------------------------------ C1
Validated == pc # "validate"

\* C1 as stated: every row returned by check_data_completeness satisfies
\* callBidPrice <= callAskPrice and putBidPrice <= putAskPrice, rows with a
\* missing bid or ask included.
C1_EveryOutputRowBidLeAsk ==
    Validated =>
        \A i \in 1..Len(valid) :
            /\ Le(valid[i].callBidPrice, valid[i].callAskPrice)
            /\ Le(valid[i].putBidPrice, valid[i].putAskPrice)

LegNotCrossed(bid, ask) == IsNA(bid) \/ IsNA(ask) \/ bid[1] <= ask[1]

\* C1 amended: no returned row has bid > ask on either leg; on a leg whose
\* bid and ask are both present bid <= ask holds, and a leg with a missing
\* quote is not constrained.
C1_NoOutputRowBidAboveAsk ==
    Validated =>
        \A i \in 1..Len(valid) :
            /\ LegNotCrossed(valid[i].callBidPrice, valid[i].callAskPrice)
            /\ LegNotCrossed(valid[i].putBidPrice, valid[i].putAskPrice)

\* a crossed put quote was removed and a row with a missing call bid kept
C1_Witness ==
    /\ Validated
    /\ \E i \in 1..Len(QQQ) :
          Gt(QQQ[i].putBidPrice, QQQ[i].putAskPrice) /\ ~Gt(QQQ[i].callBidPrice, QQQ[i].callAskPrice)
    /\ \E i \in 1..Len(valid) : IsNA(valid[i].callBidPrice)
    /\ Len(valid) < Len(QQQ)

\* ------------------------------------------------------------------ C2
KeptIndices == {i \in 1..Len(QQQ0) : ~BidAboveAsk(QQQ0[i])}

NthKept(k) == CHOOSE i \in KeptIndices : Cardinality({j \in KeptIndices : j <= i}) = k

\* C2: the returned rows are exactly the input rows with no leg having
\* bid > ask, in input order and with every field unchanged (rows with the
\* reported-only anomalies are retained), and the caller's collection is
\* the one that was passed in.
C2_ExactlyUncrossedRowsKept ==
    Validated =>
        /\ QQQ = QQQ0
        /\ Len(valid) = Cardinality(KeptIndices)
        /\ \A k \in 1..Len(valid) : valid[k] = QQQ0[NthKept(k)]

\* a crossed row was removed and the retained row is one that is
\* anomalous (missing liquidity, bad delta, negative dte, missing quote)
C2_Witness ==
    /\ Validated
    /\ Len(QQQ0) >= 2
    /\ Len(valid) = Len(QQQ0) - 1
    /\ \E k \in 1..Len(valid) :
          /\ IsNA(valid[k].callVolume) /\ Lt(valid[k].dte, Num(0))
          /\ IsNA(valid[k].putBidPrice) \/ IsNA(valid[k].callAskPrice)


\* ------------------------------------------------------------------ C3
\* spot[t] / spot[t-1] - 1, undefined when either spot is
SimpleReturn(cur, prev) ==
    IF IsNA(cur) \/ IsNA(prev) \/ (prev[1] = 0 /\ cur[1] = 0) THEN NA
    ELSE <<cur[1] - prev[1], prev[1]>>

ForwardReturnIsShift ==
    /\ \A t \in 1..(Len(daily) - 1) : daily[t].nextDayRet = daily[t+1].ret_1d
    /\ Len(daily) >= 1 => IsNA(daily[Len(daily)].nextDayRet)

\* C3: in the panel of build_time_features nextDayRet at t is ret_1d at the
\* following date and is undefined at the last date; ret_1d is undefined at
\* the first date and is spot[t]/spot[t-1] - 1 at every other date.
C3_ReturnsOfConsecutiveDates ==
    pc = "timeDone" =>
        /\ ForwardReturnIsShift
        /\ Len(daily) >= 1 => IsNA(daily[1].ret_1d)
        /\ \A t \in 2..Len(daily) :
              daily[t].ret_1d = SimpleReturn(daily[t].spot, daily[t-1].spot)

\* ------------------------------------------------------------------ C4
BucketsReturned == pc = "bucketsDone" /\ out.status = "ok"

OutDates == [j \in 1..Len(out.rows) |-> out.rows[j].tradeDate]

PanelDates == {daily[i].tradeDate : i \in 1..Len(daily)}

\* dates of the validated rows that fall in some tenor bucket
AggregatedDates == {valid[i].tradeDate : i \in {j \in 1..Len(valid) : ~IsNA(valid[j].dte)}}

\* C4: the trade dates of the panel returned by create_delta_dte_buckets
\* are exactly the dates present both in the input panel and in the bucket
\* aggregation, each exactly once.
C4_InnerJoinDates ==
    BucketsReturned =>
        /\ SeqToSet(OutDates) = PanelDates \cap AggregatedDates
        /\ Cardinality(SeqToSet(OutDates)) = Len(OutDates)

\* a date only in the panel and a date only in the aggregation were both
\* dropped, and a date in both survived
C4_Witness ==
    /\ BucketsReturned
    /\ PanelDates \ AggregatedDates # {}
    /\ AggregatedDates \ PanelDates # {}
    /\ Len(out.rows) >= 1

\* ------------------------------------------------------------------ C5
AllMetrics == {"call_notvol", "call_notoi", "put_notvol", "put_notoi"}

FullColumnSet(cfg) ==
    {<<mt, t, m>> : mt \in AllMetrics, t \in SeqToSet(cfg.labels), m \in SeqToSet(MoneynessLabels)}

\* C5: for any non-empty validated input the aggregator completes and its
\* output has a column for every metric x tenor label x moneyness x leg,
\* whichever cells hold rows, an empty cell being zero and not missing.
C5_CompletesWithEveryColumn ==
    (pc = "bucketsDone" /\ Len(valid) >= 1) =>
        /\ out.status = "ok"
        /\ FullColumnSet(tenor) \subseteq SeqToSet(out.cols)
        /\ \A j \in 1..Len(out.rows) : \A n \in FullColumnSet(tenor) :
              out.rows[j].val[n] \in Nat

\* ------------------------------------------------------------------ C6
\* sum of a notional column over the validated rows of date d whose tenor
\* bucket is t and whose moneyness bucket, taken by bucketOf, is m
RECURSIVE SumCells(_)
SumCells(cs) == IF cs = <<>> THEN 0 ELSE (IF IsNA(Head(cs)) THEN 0 ELSE Head(cs)[1]) + SumCells(Tail(cs))

Notional(r, col) ==
    IF col = "call_notvol" THEN Mul(r.callVolume, Add(r.callBidPrice, r.callAskPrice))
    ELSE IF col = "call_notoi" THEN Mul(r.callOpenInterest, Add(r.callBidPrice, r.callAskPrice))
    ELSE IF col = "put_notvol" THEN Mul(r.putVolume, Add(r.putBidPrice, r.putAskPrice))
    ELSE Mul(r.putOpenInterest, Add(r.putBidPrice, r.putAskPrice))

CallMoneyness(r) ==
    IF Lt(r.callDelta, Num(4)) THEN "otm" ELSE IF Le(r.callDelta, Num(6)) THEN "atm" ELSE "itm"

PutMoneyness(r) ==
    LET a == Abs(r.putDelta)
    IN  IF Lt(a, Num(4)) THEN "otm" ELSE IF Le(a, Num(6)) THEN "atm" ELSE "itm"

ContributionsTo(col, d, t, m, byCallDelta) ==
    LET rows == SelectSeq(valid, LAMBDA r :
                   /\ r.tradeDate = d
                   /\ Cut(r.dte, tenor) = t
                   /\ (IF byCallDelta THEN CallMoneyness(r) ELSE PutMoneyness(r)) = m)
    IN  SumCells([i \in 1..Len(rows) |-> Notional(rows[i], col)])

IsCallColumn(n) == n[1] \in {"call_notvol", "call_notoi"}

IsPutColumn(n) == n[1] \in {"put_notvol", "put_notoi"}

\* C6 as stated: a row's call-leg notional goes only to the cell (tenor of
\* its dte, moneyness of its call delta) and its put-leg notional goes to
\* that same cell, whatever its put delta is: every notional column is the
\* sum over the rows whose dte and call delta fall in its cell.
C6_BothLegsInCallDeltaCell ==
    BucketsReturned =>
        \A j \in 1..Len(out.rows) : \A n \in SeqToSet(out.cols) :
            (IsCallColumn(n) \/ IsPutColumn(n)) =>
                out.rows[j].val[n] = ContributionsTo(n[1], out.rows[j].tradeDate, n[2], n[3], TRUE)

\* C6 amended: the call-leg notional goes only to the cell (tenor of dte,
\* moneyness of the call delta) and the put-leg notional only to the cell
\* (tenor of dte, moneyness of the absolute put delta).
C6_EachLegInItsOwnDeltaCell ==
    BucketsReturned =>
        \A j \in 1..Len(out.rows) : \A n \in SeqToSet(out.cols) :
            /\ IsCallColumn(n) =>
                  out.rows[j].val[n] = ContributionsTo(n[1], out.rows[j].tradeDate, n[2], n[3], TRUE)
            /\ IsPutColumn(n) =>
                  out.rows[j].val[n] = ContributionsTo(n[1], out.rows[j].tradeDate, n[2], n[3], FALSE)

\* the only row of a date has callDelta = 0.5, dte = 10 and putDelta = -0.3:
\* its call notional is in *_1mo_atm and its put notional in *_1mo_otm
C6_Witness ==
    /\ BucketsReturned
    /\ tenor = DefaultTenor
    /\ \E j \in 1..Len(out.rows) :
          LET mine == SelectSeq(valid, LAMBDA r : r.tradeDate = out.rows[j].tradeDate)
          IN  /\ Len(mine) = 1
              /\ mine[1].callDelta = Num(5) /\ mine[1].dte = Num(10) /\ mine[1].putDelta = Num(-3)
              /\ out.rows[j].val[<<"call_notvol", "1mo", "atm">>] > 0
              /\ out.rows[j].val[<<"put_notvol", "1mo", "otm">>] > 0
              /\ out.rows[j].val[<<"put_notvol", "1mo", "atm">>] = 0

\* ------------------------------------------------------------------ C7
RatioOf(j, ratio, metricPut, metricCall, t, m) ==
    LET v == out.rows[j].val
    IN  /\ v[<<ratio, t, m>>].n = v[<<metricPut, t, m>>]
        /\ v[<<ratio, t, m>>].d = v[<<metricCall, t, m>>] * EpsInv + 2
        /\ v[<<ratio, t, m>>].d # 0

\* C7: on every output date and in every (tenor, moneyness) cell both
\* put/call ratios are put_notional / (call_notional + 1e-8) of that date
\* and cell, and are finite, also when call_notional is 0.
C7_RatiosFinite ==
    BucketsReturned =>
        \A j \in 1..Len(out.rows) : \A t \in SeqToSet(tenor.labels) :
            \A m \in SeqToSet(MoneynessLabels) :
                /\ RatioOf(j, "pc_ratio_notional_vol", "put_notvol", "call_notvol", t, m)
                /\ RatioOf(j, "pc_ratio_notional_oi", "put_notoi", "call_notoi", t, m)

\* a cell with put notional and no call notional on some output date
C7_Witness ==
    /\ BucketsReturned
    /\ \E j \in 1..Len(out.rows) : \E t \in SeqToSet(tenor.labels) :
          \E m \in SeqToSet(MoneynessLabels) :
              /\ out.rows[j].val[<<"call_notvol", t, m>>] = 0
              /\ out.rows[j].val[<<"put_notvol", t, m>>] > 0
              /\ out.rows[j].val[<<"pc_ratio_notional_vol", t, m>>].n > 0

\* ------------------------------------------------------------------ C8
IcScored == pc = "icDone"

ScoredFeatures == {ZName(FeatureColumns[k]) : k \in 1..Len(FeatureColumns)}
                  \cup {ChgName(FeatureColumns[k]) : k \in 1..Len(FeatureColumns)}

IsUnit(ic) == (~IsNA(ic)) /\ ic[1] * ic[1] = ic[2]

\* C8: a scored feature whose Spearman correlation is exactly 1 or -1, or
\* is not finite, has an undefined t-statistic (never an infinite one), and
\* the sorted summary still has one row for each scored feature.
C8_DegenerateIcHasUndefinedTStat ==
    IcScored =>
        /\ \A k \in 1..Len(icSummary) :
              /\ (IsNA(icSummary[k].IC_spearman) \/ IsUnit(icSummary[k].IC_spearman))
                    => IsNA(icSummary[k].IC_tstat)
              /\ ~IsNA(icSummary[k].IC_tstat) => icSummary[k].IC_tstat.q > 0
        /\ Len(icSummary) = Cardinality(ScoredFeatures)
        /\ {icSummary[k].feature : k \in 1..Len(icSummary)} = ScoredFeatures

\* one scored feature has correlation exactly +-1 over three or more rows
\* and another has no defined correlation, both in the sorted summary
C8_Witness ==
    /\ IcScored
    /\ Len(icDaily) >= 3
    /\ \E k \in 1..Len(icSummary) : IsUnit(icSummary[k].IC_spearman) /\ IsNA(icSummary[k].IC_tstat)
    /\ \E k \in 1..Len(icSummary) : IsNA(icSummary[k].IC_spearman) /\ IsNA(icSummary[k].IC_tstat)

\* ------------------------------------------------------------------ C9
\* rows of the z-scored panel on which the feature and the forward return
\* are both defined
RowsUsed(col) ==
    Cardinality({i \in 1..Len(icDaily) : ~IsNA(icDaily[i][col]) /\ ~IsNA(icDaily[i]["nextDayRet"])})

\* C9: for a scored feature with finite ic and |ic| < 1 the t-statistic is
\* ic * sqrt((n - 2) / (1 - ic^2)) with n the number of rows used for that
\* feature's correlation (one fewer than the panel for a first difference).
C9_TStatUsesRowsOfTheFeature ==
    IcScored =>
        \A k \in 1..Len(icSummary) :
            LET ic == icSummary[k].IC_spearman
                n == RowsUsed(icSummary[k].feature)
            IN  FiniteBelowOne(ic) =>
                    icSummary[k].IC_tstat =
                        [s |-> Sign(ic[1]), p |-> ic[1] * ic[1] * (n - 2), q |-> ic[2] - ic[1] * ic[1]]

\* ------------------------------------------------------------------ C10
Trimmed == pc = "zscore"

ForwardReturnDefined == {i \in 1..Len(icIn) : ~IsNA(icIn[i]["nextDayRet"])}

\* C10: the pre-trim of calculate_ic_and_plot removes exactly the rows whose
\* forward return is undefined: a row with a defined forward return stays,
\* also when its feature is undefined.
C10_PreTrimDropsOnlyUndefinedForwardReturn ==
    Trimmed =>
        {icDaily[k]["tradeDate"] : k \in 1..Len(icDaily)}
            = {icIn[i]["tradeDate"] : i \in ForwardReturnDefined}

\* ------------------------------------------------------------------ C11
\* C11: the summary of calculate_ics has exactly one row per scored feature
\* (the z-score and the first difference of the z-score of every feature
\* column); its IC_spearman column is non-increasing down the table, and
\* every row with an undefined IC comes after every row with a defined IC.
C11_SummarySortedByIcUndefinedLast ==
    IcScored =>
        /\ Len(icSummary) = Cardinality(ScoredFeatures)
        /\ \A f \in ScoredFeatures :
              Cardinality({k \in 1..Len(icSummary) : icSummary[k].feature = f}) = 1
        /\ \A i, j \in 1..Len(icSummary) : i < j =>
              LET a == icSummary[i].IC_spearman
                  b == icSummary[j].IC_spearman
              IN  /\ IsNA(a) => IsNA(b)
                  /\ (~IsNA(a) /\ ~IsNA(b)) => ~IcGreater(b, a)

\* the first difference has the strictly larger defined IC and was moved
\* above the z-score, which the loop had scored first
C11_Witness ==
    /\ IcScored
    /\ Len(icSummary) = 2
    /\ icSummary[1].feature = ChgName("f")
    /\ icSummary[2].feature = ZName("f")
    /\ ~IsNA(icSummary[1].IC_spearman) /\ ~IsNA(icSummary[2].IC_spearman)
    /\ IcGreater(icSummary[1].IC_spearman, icSummary[2].IC_spearman)

\* ------------------------------------------------------------------ C12
VolAdded == pc = "volDone"

SpotsAllDefined == \A i \in 1..Len(daily) : ~IsNA(daily[i].spot)

\* a defined volatility sqrt(ann) * sqrt(sum of sq / (nobs * (nobs - 1)))
\* is a real number >= 0: no radicand is negative, no divisor is zero
VolNonNegative(v) ==
    /\ v.ann >= 0
    /\ v.std.nobs * (v.std.nobs - 1) > 0
    /\ \A q \in DOMAIN v.std.sq : v.std.sq[q][1] >= 0 /\ v.std.sq[q][2] > 0

\* the panel before the volatility columns were added
WithoutVol ==
    [i \in 1..Len(daily) |->
        [tradeDate |-> daily[i].tradeDate, spot |-> daily[i].spot,
         ret_1d |-> daily[i].ret_1d, nextDayRet |-> daily[i].nextDayRet]]

\* vol_{w}d is undefined at the first w dates, defined and >= 0 at every
\* later date, and is the column the window w gets when configured alone
VolColumnAsClaimed(w) ==
    /\ \A i \in 1..Len(daily) :
          IF i <= w THEN IsNA(daily[i].vol[w])
          ELSE (~IsNA(daily[i].vol[w])) /\ VolNonNegative(daily[i].vol[w])
    /\ \A i \in 1..Len(daily) :
          daily[i].vol[w] = add_realisedVolFeatures(WithoutVol, <<w>>, Annualisation)[i].vol[w]

\* C12 as stated: for every configured window w and a panel whose spots
\* are all defined, vol_{w}d is undefined at the first w dates and defined
\* and >= 0 at every later date, each window's column being computed
\* independently of the others.
C12_VolDefinedAfterFirstWDates ==
    (VolAdded /\ SpotsAllDefined) =>
        /\ \A i \in 1..Len(daily) : DOMAIN daily[i].vol = SeqToSet(vol_windows)
        /\ \A w \in SeqToSet(vol_windows) : VolColumnAsClaimed(w)

SpotsAllNonZero == \A i \in 1..Len(daily) : (~IsNA(daily[i].spot)) /\ daily[i].spot[1] # 0

\* C12 amended: the same for every configured window w >= 2 on a panel
\* whose spots are all defined and non-zero (every return after the first
\* is then finite); with w = 1 the column is undefined at every date (the
\* sample standard deviation of a single return).
C12_VolDefinedAfterFirstWDatesFromTwo ==
    (VolAdded /\ SpotsAllNonZero) =>
        /\ \A i \in 1..Len(daily) : DOMAIN daily[i].vol = SeqToSet(vol_windows)
        /\ \A w \in SeqToSet(vol_windows) :
              IF w >= 2 THEN VolColumnAsClaimed(w)
              ELSE \A i \in 1..Len(daily) : IsNA(daily[i].vol[w])

\* a panel of three dates with every spot defined and the window 2: the
\* column is undefined at the first two dates and defined at the third,
\* where the two returns in the window differ
C12_Witness ==
    /\ VolAdded /\ SpotsAllNonZero
    /\ 2 \in SeqToSet(vol_windows)
    /\ Len(daily) = 3
    /\ IsNA(daily[1].vol[2]) /\ IsNA(daily[2].vol[2])
    /\ ~IsNA(daily[3].vol[2])
    /\ \E q \in DOMAIN daily[3].vol[2].std.sq : daily[3].vol[2].std.sq[q][1] > 0

\* ------------------------------------------------------------------ C13
DailyPrepared == pc = "returns"

InputDates == {valid[i].tradeDate : i \in 1..Len(valid)}

\* the first row of the input, in input order, that carries the date d
FirstRowOf(d) ==
    valid[CHOOSE i \in 1..Len(valid) :
             /\ valid[i].tradeDate = d
             /\ \A j \in 1..(i - 1) : valid[j].tradeDate # d]

\* C13: prepare_daily_dataframe returns exactly one record per distinct
\* trade date of its input, in ascending date order, and the spot of a
\* record is the spotPrice of the first input row of that date, also when
\* that spotPrice is missing and when several rows share the date.
C13_OneRecordPerDateWithFirstRowSpot ==
    DailyPrepared =>
        /\ Len(daily) = Cardinality(InputDates)
        /\ {daily[k].tradeDate : k \in 1..Len(daily)} = InputDates
        /\ \A k \in 1..(Len(daily) - 1) : daily[k].tradeDate < daily[k+1].tradeDate
        /\ \A k \in 1..Len(daily) : daily[k].spot = FirstRowOf(daily[k].tradeDate).spotPrice

\* ------------------------------------------------------------------ C14
Classified == pc = "classified"

\* the declared tenor rule: each boundary value belongs to the lower bucket
TenorRule(dte) ==
    IF dte <= 7 THEN "7d"
    ELSE IF dte <= 30 THEN "1mo"
    ELSE IF dte <= 90 THEN "3mo"
    ELSE IF dte <= 365 THEN "12mo"
    ELSE "far"

\* the declared moneyness rule on a delta magnitude m (in tenths): atm iff
\* m is in [0.4, 0.6], otm iff m < 0.4, itm otherwise
MoneynessAsDeclared(label, m) ==
    /\ label \in {"itm", "atm", "otm"}
    /\ label = "atm" <=> ((~IsNA(m)) /\ 4 <= m[1] /\ m[1] <= 6)
    /\ label = "otm" <=> ((~IsNA(m)) /\ m[1] < 4)

Magnitude(d) == IF IsNA(d) THEN NA ELSE IF d[1] < 0 THEN <<0 - d[1]>> ELSE d

\* C14: every row is classified by the declared rule: a defined dte falls
\* in exactly the tenor bucket 7d (dte <= 7), 1mo (7 < dte <= 30), 3mo
\* (30 < dte <= 90), 12mo (90 < dte <= 365) or far (dte > 365); each leg
\* gets exactly one moneyness label, atm iff its delta magnitude is in
\* [0.4, 0.6], otm iff it is < 0.4, itm otherwise, the call leg by its signed
\* delta and the put leg by its absolute delta.
C14_BucketsFollowDeclaredRule ==
    Classified =>
        /\ Len(voi) = Len(valid)
        /\ \A i \in 1..Len(voi) :
              /\ ~IsNA(valid[i].dte) => voi[i].dte_bucket = TenorRule(valid[i].dte[1])
              /\ MoneynessAsDeclared(voi[i].call_delta_bucket, valid[i].callDelta)
              /\ MoneynessAsDeclared(voi[i].put_delta_bucket, Magnitude(valid[i].putDelta))

\* a row on three boundaries at once: dte = 365 is 12mo, call delta 0.4 is
\* atm and put delta -0.6 is atm
C14_Witness ==
    /\ Classified
    /\ Len(voi) = 1
    /\ valid[1].dte = Num(365) /\ voi[1].dte_bucket = "12mo"
    /\ valid[1].callDelta = Num(4) /\ voi[1].call_delta_bucket = "atm"
    /\ valid[1].putDelta = Num(-6) /\ voi[1].put_delta_bucket = "atm"
====
